---------------------------- MODULE Spec2Model ----------------------------
(***************************************************************************)
(* A model of the character-level sequence-to-sequence transformer of      *)
(* src/transformer (Vocabulary, padding masks, greedy decoding) and of the *)
(* training loop of src/transformer/tools.py driven by src/training.py.    *)
(*                                                                         *)
(* The numeric work of the network is abstracted: a decoder step is a     *)
(* choice of the arg-max token, a loss is a small number, a validation     *)
(* accuracy is a percentage.  Control flow, the containers and the         *)
(* counters are those of the source.                                       *)
(*                                                                         *)
(* Name binding.  model.py reads a module global DEVICE it never defines   *)
(* and train calls evaluate without its fifth parameter DEVICE             *)
(* (tools.py:288, 304).  The model binds DEVICE in both places, as the     *)
(* single-namespace original of the code did; the algorithms are modelled  *)
(* as they run once that name is bound.                                    *)
(***************************************************************************)
EXTENDS Integers, Sequences, FiniteSets, TLC

VARIABLES
    \* ---- Vocabulary (tools.py:8-54)
    string_to_id,      \* dict symbol -> ID
    id_to_string,      \* dict ID -> symbol
    vlast,             \* the last Vocabulary call: its arguments, result and pre-state
    \* ---- TransformerModel.greedy_search / greedy_decode (model.py:46-130)
    pad_id,            \* self.pad_id, set at construction
    decoder,           \* the decoder's weights: "any" arg-max per step, or "const"
    src,               \* source IDs, src[position][batch]
    tgt_len,           \* tgt.shape[0], the target length hint (tgt.shape[1] = batch)
    pc,                \* position in greedy_search / greedy_decode
    err,               \* the exception that ended the call, "none" if none
    src_key_padding_mask,  \* [batch][position]
    encoder_out,       \* encoder memory, one column per example
    encoder_calls,     \* number of self.encoder(...) calls
    results,           \* results[batch][position]
    i,                 \* greedy_search's example index (1-based)
    memory,            \* greedy_decode's memory argument
    memory_key_padding_mask,   \* greedy_decode's mask argument
    max_len,           \* greedy_decode's max_len argument
    ys,                \* greedy_decode's sequence generated so far
    di,                \* greedy_decode's loop index: iterations completed
    n_steps,           \* decoder steps (arg-max selections) of this greedy_decode
    tgt_key_padding_mask,  \* the mask of the last decoder step
    ret,               \* the value the last greedy_decode returned
    rets,              \* history: the value returned for each example
    \* ---- train / evaluate (tools.py:205-315) under the script's loop (training.py:48-49)
    epochs,            \* the script's number of epochs
    log_interval,      \* train's log_interval
    k,                 \* train's accumulation factor
    tb,                \* len(train_data_loader)
    tpc,               \* position: "script", "loop" (inside train) or "exit"
    epoch,             \* the script's loop variable
    training,          \* model.training: TRUE in training mode, FALSE in evaluation mode
    n_done,            \* batches of this epoch processed: the next batch_idx
    params,            \* the parameters' version: the optimizer steps applied
    grads,             \* the accumulated gradients: the batches summed in them
    clips,             \* number of clip_grad_norm_ calls
    total_loss,        \* train's running loss
    total_accu,        \* train's running accuracy (percent)
    val_accu,          \* train's val_accu (percent)
    valid_accu,        \* the list valid_accu
    valid_loss,        \* the list valid_loss
    early_stopped,     \* history: a train call has returned through the early stop
    tlast              \* history: what the last loop iteration of train did

vocabVars == <<string_to_id, id_to_string, vlast>>

trainVars == <<epochs, log_interval, k, tb, tpc, epoch, training, n_done, params,
               grads, clips, total_loss, total_accu, val_accu, valid_accu,
               valid_loss, early_stopped, tlast>>

vars == <<string_to_id, id_to_string, vlast, pad_id, decoder, src, tgt_len, pc, err,
          src_key_padding_mask, encoder_out, encoder_calls, results, i, memory,
          memory_key_padding_mask, max_len, ys, di, n_steps, tgt_key_padding_mask,
          ret, rets, epochs, log_interval, k, tb, tpc, epoch, training, n_done,
          params, grads, clips, total_loss, total_accu, val_accu, valid_accu,
          valid_loss, early_stopped, tlast>>

searchVars == <<pad_id, decoder, src, tgt_len, pc, err, src_key_padding_mask,
                encoder_out, encoder_calls, results, i, memory,
                memory_key_padding_mask, max_len, ys, di, n_steps,
                tgt_key_padding_mask, ret, rets>>

-----------------------------------------------------------------------------
(* Reserved token IDs, Vocabulary.__init__ tools.py:33-36 *)
pad_id_default == 0
unk_id == 1
eos_id == 2
sos_id == 3

pad_token == "<pad>"
unk_token == "<unk>"
eos_token == "<eos>"
sos_token == "<sos>"

ReservedTokens == {pad_token, unk_token, eos_token, sos_token}

(* Bounds of the vocabulary model *)
MaxVocabSize == 6
CorpusSymbols == {"a", "b", "c"}
Symbols == ReservedTokens \cup CorpusSymbols

Size(d) == Cardinality(DOMAIN d)

(* Vocabulary.__init__: the four reserved entries in both directions *)
InitIdToString ==
    (0 :> pad_token) @@ (1 :> unk_token) @@ (2 :> eos_token) @@ (3 :> sos_token)

InitStringToId ==
    (pad_token :> 0) @@ (unk_token :> 1) @@ (eos_token :> 2) @@ (sos_token :> 3)

(* Vocabulary.__len__ *)
VocabLen == Size(id_to_string)

(* Vocabulary.add_new_word(string): two dict stores, each keyed or valued  *)
(* by the length of its own dict at the time of the store; a store to an   *)
(* existing key overwrites it.                                             *)
add_new_word(s2i, i2s, string) ==
    [string_to_id |-> (string :> Size(s2i)) @@ s2i,
     id_to_string |-> (Size(i2s) :> string) @@ i2s]

(* Vocabulary.get_idx(string, extend_vocab): the returned ID and the dicts *)
(* after the call.                                                         *)
get_idx_extends_always(s2i, i2s, string, extend_vocab) ==
    IF string \in DOMAIN s2i
    THEN [ret |-> s2i[string], string_to_id |-> s2i, id_to_string |-> i2s]
    ELSE LET a == add_new_word(s2i, i2s, string)
         IN  [ret |-> IF extend_vocab THEN a.string_to_id[string] ELSE unk_id,
              string_to_id |-> a.string_to_id,
              id_to_string |-> a.id_to_string]

get_idx(s2i, i2s, string, extend_vocab) ==
    IF string \in DOMAIN s2i
    THEN [ret |-> s2i[string], string_to_id |-> s2i, id_to_string |-> i2s]
    ELSE IF extend_vocab
         THEN LET a == add_new_word(s2i, i2s, string)
              IN  [ret |-> a.string_to_id[string],
                   string_to_id |-> a.string_to_id,
                   id_to_string |-> a.id_to_string]
         ELSE [ret |-> unk_id, string_to_id |-> s2i, id_to_string |-> i2s]

VocabCall(op, string, extend_vocab, id) ==
    [op |-> op, string |-> string, extend_vocab |-> extend_vocab, ret |-> id,
     s2i_before |-> string_to_id, i2s_before |-> id_to_string]

VocabInit ==
    /\ string_to_id = InitStringToId
    /\ id_to_string = InitIdToString
    /\ vlast = [op |-> "init", string |-> pad_token, extend_vocab |-> FALSE,
                ret |-> 0, s2i_before |-> InitStringToId,
                i2s_before |-> InitIdToString]

(* A call vocab.get_idx(string, extend_vocab), as parallel_text_to_data    *)
(* makes for every character (tools.py:122, 139).                          *)
GetIdx ==
    \E string \in Symbols, extend_vocab \in BOOLEAN :
        LET r == get_idx(string_to_id, id_to_string, string, extend_vocab)
        IN  /\ Size(r.id_to_string) <= MaxVocabSize
            /\ string_to_id' = r.string_to_id
            /\ id_to_string' = r.id_to_string
            /\ vlast' = VocabCall("get_idx", string, extend_vocab, r.ret)
            /\ UNCHANGED <<searchVars, trainVars>>

(* A direct call vocab.add_new_word(string) of the public method, with any *)
(* symbol, present or not.                                                 *)
AddNewWord ==
    \E string \in Symbols :
        LET r == add_new_word(string_to_id, id_to_string, string)
        IN  /\ Size(r.id_to_string) <= MaxVocabSize
            /\ string_to_id' = r.string_to_id
            /\ id_to_string' = r.id_to_string
            /\ vlast' = VocabCall("add_new_word", string, FALSE, Size(string_to_id))
            /\ UNCHANGED <<searchVars, trainVars>>

-----------------------------------------------------------------------------
(* PositionalEncoding: max_len of __init__ (model.py:17), the value every  *)
(* TransformerModel is built with (model.py:57).                           *)
PE_max_len == 5000

(* PositionalEncoding.forward's assertion on x.size(0) (model.py:39) *)
pos_encoder_accepts(seq_len) == seq_len < PE_max_len

(* Bounds of the decoding model *)
MaxBatch == 2
MaxSrcLen == 1
MaxTgtLen == 2
PadIds == {0, 1}
SrcIds == {0, 1}
\* the arg-max outcomes greedy_decode tells apart: the pad value, the end
\* token, any other token
\* the first ID a corpus symbol gets (tools.py:42)
OrdinaryToken == sos_id + 1
ArgMaxTokens == {0, eos_id, OrdinaryToken}

Batch == Len(src[1])

(* create_src_padding_mask (model.py:64-67): src.transpose(0, 1) == 0 *)
create_src_padding_mask(m) ==
    [b \in 1..Len(m[1]) |-> [p \in 1..Len(m) |-> m[p][b] = 0]]

(* create_tgt_padding_mask (model.py:69-72): tgt.transpose(0, 1) == 0 *)
create_tgt_padding_mask(m) ==
    [b \in 1..Len(m[1]) |-> [p \in 1..Len(m) |-> m[p][b] = 0]]

\* a (n, 1) tensor from a sequence of n IDs
AsColumn(seq) == [p \in 1..Len(seq) |-> <<seq[p]>>]

(* self.encoder(out, src_key_padding_mask): column b of the memory is a    *)
(* function of column b of the source and of row b of the mask.            *)
Encoder(m, mask) ==
    [b \in 1..Len(m[1]) |->
        [example |-> b, ids |-> [p \in 1..Len(m) |-> m[p][b]], mask |-> mask[b]]]

(* range(max_len - 1) of greedy_decode's loop (model.py:84) *)
loop_bound_max_len(n) == n

loop_bound(n) == n - 1

(* the arg-max of one decoder step (model.py:91-98) *)
NextWords == IF decoder = "any" THEN ArgMaxTokens ELSE {OrdinaryToken}

(* greedy_decode's break test (model.py:103) *)
is_end_never(next_word) == FALSE

is_end(next_word) == next_word = 2

(* greedy_decode's length pad (model.py:106-109) *)
length_pad(seq, n) ==
    IF Len(seq) < n
    THEN [p \in 1..n |-> IF p <= Len(seq) THEN seq[p] ELSE 0]
    ELSE seq

(* memory and mask of example b (model.py:125-126) *)
memory_of_first(enc, b) == enc[1]

memory_of(enc, b) == enc[b]

mask_row_of(mask, b) == mask[b]

Ones(rows, cols) == [b \in 1..rows |-> [p \in 1..cols |-> 1]]

NoMask == <<>>

SearchIdle ==
    /\ pc = "call" /\ err = "none"
    /\ src_key_padding_mask = NoMask /\ encoder_out = <<>> /\ encoder_calls = 0
    /\ results = <<>> /\ i = 0 /\ memory = <<>> /\ memory_key_padding_mask = NoMask
    /\ max_len = 0 /\ ys = <<>> /\ di = 0 /\ n_steps = 0
    /\ tgt_key_padding_mask = NoMask /\ ret = <<>> /\ rets = <<>>

Matrices(rows, cols, ids) == [1..rows -> [1..cols -> ids]]

Fill(rows, cols, id) == [p \in 1..rows |-> [b \in 1..cols |-> id]]

(* The calls model.greedy_search(src, tgt) the model is given: every small *)
(* batch with an arbitrary decoder, and single examples at the             *)
(* positional-encoding capacity decoded by a decoder that never ends.      *)
SearchInit ==
    /\ SearchIdle
    /\ \/ /\ pad_id \in PadIds
          /\ decoder = "any"
          /\ \E B \in 1..MaxBatch, n \in 1..MaxSrcLen : src \in Matrices(n, B, SrcIds)
          /\ tgt_len \in 0..MaxTgtLen
       \/ /\ pad_id = pad_id_default
          /\ decoder = "const"
          /\ \/ /\ src \in {Fill(PE_max_len - 1, 1, OrdinaryToken),
                              Fill(PE_max_len, 1, OrdinaryToken)}
                /\ tgt_len = 1
             \/ /\ src = Fill(1, 1, OrdinaryToken)
                /\ tgt_len \in {PE_max_len - 1, PE_max_len}

(* greedy_search up to its loop (model.py:119-123) *)
GreedySearchEncode ==
    /\ pc = "call"
    /\ src_key_padding_mask' = create_src_padding_mask(src)
    /\ IF pos_encoder_accepts(Len(src))
       THEN /\ encoder_out' = Encoder(src, src_key_padding_mask')
            /\ encoder_calls' = encoder_calls + 1
            /\ results' = Ones(Batch, tgt_len)
            /\ i' = 1
            /\ pc' = "for"
            /\ err' = err
       ELSE /\ pc' = "error"
            /\ err' = "AssertionError"
            /\ UNCHANGED <<encoder_out, encoder_calls, results, i>>
    /\ UNCHANGED <<vocabVars, trainVars>>
    /\ UNCHANGED <<pad_id, decoder, src, tgt_len, memory, memory_key_padding_mask,
                   max_len, ys, di, n_steps, tgt_key_padding_mask, ret, rets>>

(* one turn of greedy_search's loop: the call of greedy_decode and its     *)
(* first line (model.py:124-127, 83)                                       *)
GreedyDecodeCall ==
    /\ pc = "for"
    /\ i <= Len(encoder_out)
    /\ memory' = memory_of(encoder_out, i)
    /\ memory_key_padding_mask' = mask_row_of(src_key_padding_mask, i)
    /\ max_len' = tgt_len + 1
    /\ ys' = <<3>>
    /\ di' = 0
    /\ n_steps' = 0
    /\ pc' = "loop"
    /\ UNCHANGED <<vocabVars, trainVars>>
    /\ UNCHANGED <<pad_id, decoder, src, tgt_len, err, src_key_padding_mask,
                   encoder_out, encoder_calls, results, i, tgt_key_padding_mask,
                   ret, rets>>

(* one iteration of greedy_decode's loop (model.py:84-104) *)
DecodeStep ==
    /\ pc = "loop"
    /\ di < loop_bound(max_len)
    /\ tgt_key_padding_mask' = create_tgt_padding_mask(AsColumn(ys))
    /\ IF pos_encoder_accepts(Len(ys))
       THEN \E next_word \in NextWords :
                /\ ys' = Append(ys, next_word)
                /\ di' = di + 1
                /\ n_steps' = n_steps + 1
                /\ pc' = IF is_end(next_word) THEN "pad" ELSE "loop"
                /\ err' = err
       ELSE /\ pc' = "error"
            /\ err' = "AssertionError"
            /\ UNCHANGED <<ys, di, n_steps>>
    /\ UNCHANGED <<vocabVars, trainVars>>
    /\ UNCHANGED <<pad_id, decoder, src, tgt_len, src_key_padding_mask, encoder_out,
                   encoder_calls, results, i, memory, memory_key_padding_mask,
                   max_len, ret, rets>>

(* the end of greedy_decode: the length pad and the return (model.py:106-110) *)
DecodeReturn ==
    /\ \/ pc = "pad"
       \/ pc = "loop" /\ di >= loop_bound(max_len)
    /\ ret' = length_pad(ys, max_len)
    /\ rets' = Append(rets, ret')
    /\ pc' = "store"
    /\ UNCHANGED <<vocabVars, trainVars>>
    /\ UNCHANGED <<pad_id, decoder, src, tgt_len, err, src_key_padding_mask,
                   encoder_out, encoder_calls, results, i, memory,
                   memory_key_padding_mask, max_len, ys, di, n_steps,
                   tgt_key_padding_mask>>

(* results[i, :] = result[:, 1:] (model.py:128-129); the assignment needs  *)
(* both sides of one length                                                *)
StoreResult ==
    /\ pc = "store"
    /\ IF Len(ret) - 1 = tgt_len
       THEN /\ results' = [results EXCEPT ![i] = Tail(ret)]
            /\ i' = i + 1
            /\ pc' = "for"
            /\ err' = err
       ELSE /\ pc' = "error"
            /\ err' = "RuntimeError"
            /\ UNCHANGED <<results, i>>
    /\ UNCHANGED <<vocabVars, trainVars>>
    /\ UNCHANGED <<pad_id, decoder, src, tgt_len, src_key_padding_mask, encoder_out,
                   encoder_calls, memory, memory_key_padding_mask, max_len, ys, di,
                   n_steps, tgt_key_padding_mask, ret, rets>>

(* return results (model.py:130) *)
GreedySearchReturn ==
    /\ pc = "for"
    /\ i > Len(encoder_out)
    /\ pc' = "done"
    /\ UNCHANGED <<vocabVars, trainVars>>
    /\ UNCHANGED <<pad_id, decoder, src, tgt_len, err, src_key_padding_mask,
                   encoder_out, encoder_calls, results, i, memory,
                   memory_key_padding_mask, max_len, ys, di, n_steps,
                   tgt_key_padding_mask, ret, rets>>

SearchNext ==
    \/ GreedySearchEncode
    \/ GreedyDecodeCall
    \/ DecodeStep
    \/ DecodeReturn
    \/ StoreResult
    \/ GreedySearchReturn

-----------------------------------------------------------------------------
(* Bounds of the training model *)
MaxEpochs == 2
MaxLogInterval == 3
MaxK == 3
MaxTb == 3

(* the early-stop threshold 0.9 (tools.py:312), as a percentage *)
stop_threshold == 90

\* loss.item() and get_accu(...) of one training batch
BatchOutcomes == {[loss |-> 1, accu |-> 100], [loss |-> 2, accu |-> 0]}

\* what evaluate returns: (loss, accu); an accuracy of exactly 0.9 included
EvalOutcomes == {[loss |-> 2, accu |-> 90], [loss |-> 1, accu |-> 100]}

(* the gradient accumulation test (tools.py:269) *)
is_step_boundary_zero_based(batch_idx, kk, n) ==
    batch_idx % kk = 0 \/ batch_idx + 1 = n

is_step_boundary(batch_idx, kk, n) ==
    (batch_idx + 1) % kk = 0 \/ batch_idx + 1 = n

(* the periodic validation test (tools.py:281) *)
is_log_checkpoint(batch_idx, interval) ==
    (batch_idx + 1) % interval = 0 /\ batch_idx > 0

(* the end-of-epoch validation test of the elif (tools.py:297) *)
is_last_batch(batch_idx, n) == batch_idx + 1 = n

(* the early-stop test (tools.py:312) *)
is_early_stop(accu) == accu > stop_threshold

(* whether this iteration calls evaluate: the if and the elif              *)
(* (tools.py:281, 297)                                                     *)
calls_evaluate(batch_idx) ==
    is_log_checkpoint(batch_idx, log_interval) \/ is_last_batch(batch_idx, tb)

\* what evaluate returns in this iteration, if it is called
EvalResults(batch_idx) ==
    IF calls_evaluate(batch_idx) THEN EvalOutcomes ELSE {[loss |-> 0, accu |-> 0]}

(* evaluate's first statement, eval_model.eval() (tools.py:213); nothing   *)
(* in evaluate or after it in train switches the mode back                 *)
mode_after_evaluate(mode) == FALSE

(* model.train() (tools.py:243) *)
mode_after_train_call(mode) == TRUE

NoBatch ==
    [epoch |-> 0, idx |-> 0, training |-> TRUE, stepped |-> FALSE, clipped |-> FALSE,
     params_before |-> 0, params_after |-> 0, grads_after |-> {}, evals |-> 0,
     total_loss_after |-> 0, total_accu_after |-> 0, recorded |-> 0,
     after_stop |-> FALSE, stop |-> FALSE, applied |-> {}]

TrainIdle ==
    /\ tpc = "script" /\ epoch = 0 /\ training = TRUE /\ n_done = 0
    /\ params = 0 /\ grads = {} /\ clips = 0 /\ total_loss = 0 /\ total_accu = 0
    /\ val_accu = 0 /\ valid_accu = <<>> /\ valid_loss = <<>>
    /\ early_stopped = FALSE /\ tlast = NoBatch

TrainInit ==
    /\ TrainIdle
    /\ epochs \in 1..MaxEpochs
    /\ log_interval \in 1..MaxLogInterval
    /\ k \in 1..MaxK
    /\ tb \in 1..MaxTb

(* one turn of the script's epoch loop: the call of train and train's      *)
(* statements before its loop (training.py:48-49, tools.py:243-251)        *)
ScriptCallTrain ==
    /\ tpc = "script"
    /\ epoch < epochs
    /\ epoch' = epoch + 1
    /\ training' = mode_after_train_call(training)
    /\ total_loss' = 0
    /\ total_accu' = 0
    /\ val_accu' = 0
    /\ n_done' = 0
    /\ tpc' = "loop"
    /\ UNCHANGED <<epochs, log_interval, k, tb, params, grads, clips, valid_accu,
                   valid_loss, early_stopped, tlast>>
    /\ UNCHANGED <<vocabVars, searchVars>>

(* one iteration of train's loop over the batches (tools.py:253-315) *)
TrainBatch ==
    /\ tpc = "loop"
    /\ n_done < tb
    /\ \E b \in BatchOutcomes, v \in EvalResults(n_done) :
        LET batch_idx == n_done
            \* loss.backward() (tools.py:266)
            g1 == grads \cup {<<epoch, batch_idx + 1>>}
            step == is_step_boundary(batch_idx, k, tb)
            \* tools.py:274-279
            tl1 == total_loss + b.loss
            ta1 == total_accu + b.accu
            check == calls_evaluate(batch_idx)
            va1 == IF check THEN v.accu ELSE val_accu
            stop == is_early_stop(va1)
        IN  /\ params' = IF step THEN params + 1 ELSE params
            /\ clips' = IF step THEN clips + 1 ELSE clips
            /\ grads' = IF step THEN {} ELSE g1
            /\ training' = IF check THEN mode_after_evaluate(training) ELSE training
            /\ val_accu' = va1
            /\ valid_accu' = IF check THEN Append(valid_accu, v.accu) ELSE valid_accu
            /\ valid_loss' = IF check THEN Append(valid_loss, v.loss) ELSE valid_loss
            /\ total_loss' = IF check THEN 0 ELSE tl1
            /\ total_accu' = IF check THEN 0 ELSE ta1
            /\ n_done' = n_done + 1
            /\ early_stopped' = (early_stopped \/ stop)
            /\ tpc' = IF stop THEN "script" ELSE "loop"
            /\ tlast' = [epoch |-> epoch, idx |-> batch_idx + 1,
                         training |-> training, stepped |-> step, clipped |-> step,
                         params_before |-> params, params_after |-> params',
                         grads_after |-> grads',
                         evals |-> IF check THEN 1 ELSE 0,
                         total_loss_after |-> total_loss',
                         total_accu_after |-> total_accu',
                         recorded |-> Len(valid_accu') - Len(valid_accu),
                         after_stop |-> early_stopped, stop |-> stop,
                         \* the gradients optimizer.step() applied (tools.py:271)
                         applied |-> IF step THEN g1 ELSE {}]
    /\ UNCHANGED <<epochs, log_interval, k, tb, epoch>>
    /\ UNCHANGED <<vocabVars, searchVars>>

(* train's loop is exhausted and train returns (tools.py:253) *)
TrainReturn ==
    /\ tpc = "loop"
    /\ n_done = tb
    /\ tpc' = "script"
    /\ UNCHANGED <<epochs, log_interval, k, tb, epoch, training, n_done, params,
                   grads, clips, total_loss, total_accu, val_accu, valid_accu,
                   valid_loss, early_stopped, tlast>>
    /\ UNCHANGED <<vocabVars, searchVars>>

(* the script's loop is exhausted (training.py:48) *)
ScriptExit ==
    /\ tpc = "script"
    /\ epoch = epochs
    /\ tpc' = "exit"
    /\ UNCHANGED <<epochs, log_interval, k, tb, epoch, training, n_done, params,
                   grads, clips, total_loss, total_accu, val_accu, valid_accu,
                   valid_loss, early_stopped, tlast>>
    /\ UNCHANGED <<vocabVars, searchVars>>

\* the training component before the script has read its arguments
TrainInitIdle ==
    /\ TrainIdle
    /\ epochs = 1 /\ log_interval = 1 /\ k = 1 /\ tb = 1

\* the search component with one fixed, never started call
SearchInitIdle ==
    /\ SearchIdle
    /\ pad_id = pad_id_default /\ decoder = "any"
    /\ src = Fill(1, 1, OrdinaryToken) /\ tgt_len = 1

-----------------------------------------------------------------------------
(* The specifications: one per component, the others idle. *)

InitSearch == VocabInit /\ SearchInit /\ TrainInitIdle

InitVocabulary == VocabInit /\ SearchInitIdle /\ TrainInitIdle

InitTrain == VocabInit /\ SearchInitIdle /\ TrainInit

VocabNext ==
    \/ GetIdx
    \/ AddNewWord

LookupNext == GetIdx

TrainNext ==
    \/ ScriptCallTrain
    \/ TrainBatch
    \/ TrainReturn
    \/ ScriptExit

\* one call of greedy_search
SpecSearch == InitSearch /\ [][SearchNext]_vars

\* a Vocabulary under calls of both its methods
SpecVocabulary == InitVocabulary /\ [][VocabNext]_vars

\* a Vocabulary under lookups only
SpecLookup == InitVocabulary /\ [][LookupNext]_vars

\* the script's epoch loop over train
SpecTrain == InitTrain /\ [][TrainNext]_vars

-----------------------------------------------------------------------------
(* Properties *)

Min(S) == CHOOSE x \in S : \A y \in S : x <= y

\* greedy_decode has just returned ret for example i
Returned == pc = "store"

\* the steps at which ret holds the end token (position 0 is the start token)
EndSteps == {t \in 1..(Len(ret) - 1) : ret[t + 1] = eos_id}

(* C1: greedy_decode returns a sequence of exactly max_len positions; if   *)
(* the end token is generated at step t < max_len, every position from     *)
(* t+1 onward holds the pad ID 0 and no token was generated after it.      *)
C1_FixedLengthPadAfterEnd ==
    Returned =>
        /\ Len(ret) = max_len
        /\ ret[1] = sos_id
        /\ n_steps <= max_len - 1
        /\ \A p \in 1..Len(ys) : ret[p] = ys[p]
        /\ EndSteps # {} =>
              LET t == Min(EndSteps)
              IN  /\ n_steps = t
                  /\ \A p \in (t + 2)..max_len : ret[p] = 0
        /\ EndSteps = {} => n_steps = max_len - 1

C1_Witness ==
    /\ Returned
    /\ max_len = 3
    /\ ret = <<sos_id, eos_id, 0>>
    /\ n_steps = 1

(* C9, as claimed: called with max length 1, greedy_decode's loop still    *)
(* emits exactly one generated token before the length pad.                *)
C9_OneTokenAtMaxLenOne ==
    (Returned /\ max_len = 1) => n_steps = 1

(* C9, amended: called with max length 1, greedy_decode makes no decoder   *)
(* step and returns the start token alone; the first generated token       *)
(* needs max length 2, where exactly one is emitted.                       *)
C9_NoTokenAtMaxLenOne ==
    /\ (Returned /\ max_len = 1) => (n_steps = 0 /\ ret = <<sos_id>>)
    /\ (Returned /\ max_len = 2) => (n_steps = 1 /\ Len(ret) = 2)

C9_Witness ==
    /\ Returned
    /\ max_len = 1
    /\ ret = <<sos_id>>

Column(m, b) == [p \in 1..Len(m) |-> m[p][b]]

\* greedy_search's result once it has returned
FullShapeResult ==
    pc = "done" =>
        /\ encoder_calls = 1
        /\ Len(results) = Batch
        /\ Len(rets) = Batch
        /\ \A b \in 1..Batch :
              /\ Len(results[b]) = tgt_len
              /\ Len(rets[b]) = tgt_len + 1
              /\ rets[b][1] = sos_id
              /\ results[b] = Tail(rets[b])

\* example i is decoded against its own memory column and mask row
OwnMemoryAndMask ==
    pc \in {"loop", "pad", "store"} =>
        /\ memory.example = i
        /\ memory.ids = Column(src, i)
        /\ memory_key_padding_mask = src_key_padding_mask[i]
        /\ encoder_calls = 1

(* C8, as claimed: greedy_search never errors, whatever the source batch   *)
(* and the target length hint; it encodes once, decodes example i against  *)
(* memory column i and mask row i, and returns one row per example, the    *)
(* example's greedy_decode output without its start token.                 *)
C8_NeverErrors ==
    /\ pc # "error"
    /\ OwnMemoryAndMask
    /\ FullShapeResult

(* C8, amended: greedy_search returns such a tensor for every source batch *)
(* shorter than the positional-encoding capacity (5000 positions) and      *)
(* every target length hint below it; the only error is the positional     *)
(* encoder's assertion, raised for a source of 5000 positions or more and  *)
(* for a decode whose partial sequence reaches 5000 tokens.                *)
C8_ErrorsOnlyAtCapacity ==
    /\ OwnMemoryAndMask
    /\ FullShapeResult
    /\ (Len(src) < PE_max_len /\ tgt_len < PE_max_len) => pc # "error"
    /\ pc = "error" =>
          /\ err = "AssertionError"
          /\ \/ Len(src) >= PE_max_len
             \/ Len(ys) >= PE_max_len /\ tgt_len >= PE_max_len
    /\ (Len(src) >= PE_max_len /\ pc # "call") => pc = "error"

C8_Witness ==
    /\ pc = "done"
    /\ Batch = 2
    /\ tgt_len = 2
    /\ results[1] = <<eos_id, 0>>
    /\ results[2] = <<OrdinaryToken, eos_id>>

(* C7: the source and target padding masks are true at (batch, position)   *)
(* exactly when the ID at [position, batch] equals the pad ID the model    *)
(* was constructed with.                                                   *)
C7_MasksFollowConfiguredPadId ==
    /\ pc # "call" =>
          \A b \in 1..Batch : \A p \in 1..Len(src) :
              src_key_padding_mask[b][p] = (src[p][b] = pad_id)
    /\ (pc \in {"loop", "pad"} /\ n_steps >= 1) =>
          \A p \in 1..Len(tgt_key_padding_mask[1]) :
              tgt_key_padding_mask[1][p] = (ys[p] = pad_id)

\* the call recorded in vlast looked up a symbol the vocabulary held
WasKnown == vlast.string \in DOMAIN vlast.s2i_before

ReservedIdsKept ==
    /\ string_to_id[pad_token] = 0 /\ id_to_string[0] = pad_token
    /\ string_to_id[unk_token] = 1 /\ id_to_string[1] = unk_token
    /\ string_to_id[eos_token] = 2 /\ id_to_string[2] = eos_token
    /\ string_to_id[sos_token] = 3 /\ id_to_string[3] = sos_token

MapsUnchanged ==
    /\ string_to_id = vlast.s2i_before
    /\ id_to_string = vlast.i2s_before

(* C5: get_idx returns a known symbol's ID; for an unknown symbol with     *)
(* extend_vocab it assigns the next unused ID, records both directions and *)
(* returns it, and a following get_idx without extend_vocab returns the    *)
(* same ID; for an unknown symbol without extend_vocab it returns 1 and    *)
(* changes nothing; the reserved tokens keep IDs 0-3 under lookups.        *)
C5_GetIdx ==
    /\ ReservedIdsKept
    /\ vlast.op = "get_idx" =>
        /\ WasKnown => (vlast.ret = vlast.s2i_before[vlast.string] /\ MapsUnchanged)
        /\ (~WasKnown /\ vlast.extend_vocab) =>
              /\ vlast.ret \notin DOMAIN vlast.i2s_before
              /\ \A j \in 0..(vlast.ret - 1) : j \in DOMAIN vlast.i2s_before
              /\ string_to_id = (vlast.string :> vlast.ret) @@ vlast.s2i_before
              /\ id_to_string = (vlast.ret :> vlast.string) @@ vlast.i2s_before
              /\ get_idx(string_to_id, id_to_string, vlast.string, FALSE).ret
                    = vlast.ret
        /\ (~WasKnown /\ ~vlast.extend_vocab) =>
              /\ vlast.ret = unk_id
              /\ MapsUnchanged
              /\ VocabLen = Size(vlast.i2s_before)
        /\ \A s \in DOMAIN vlast.s2i_before : string_to_id[s] = vlast.s2i_before[s]

C5_Witness ==
    /\ vlast.op = "get_idx"
    /\ ~WasKnown
    /\ vlast.extend_vocab
    /\ vlast.ret = 5
    /\ get_idx(string_to_id, id_to_string, vlast.string, FALSE).ret = 5

(* C6: under add_new_word and get_idx, with symbols present or not,        *)
(* id_to_string and string_to_id are exact inverses, the assigned IDs are  *)
(* exactly 0..size-1 with new symbols numbered densely from 4, and the     *)
(* vocabulary never shrinks.                                               *)
C6_InverseDenseNeverShrinks ==
    /\ DOMAIN id_to_string = 0..(VocabLen - 1)
    /\ Size(string_to_id) = VocabLen
    /\ \A s \in DOMAIN string_to_id :
          /\ string_to_id[s] \in DOMAIN id_to_string
          /\ id_to_string[string_to_id[s]] = s
    /\ \A j \in DOMAIN id_to_string :
          /\ id_to_string[j] \in DOMAIN string_to_id
          /\ string_to_id[id_to_string[j]] = j
    /\ \A s \in DOMAIN string_to_id \ ReservedTokens : string_to_id[s] >= 4
    /\ VocabLen >= Size(vlast.i2s_before)
    /\ Size(string_to_id) >= Size(vlast.s2i_before)

\* train has processed a batch
Processed == tlast.idx > 0

\* the 1-based index of the last batch is a step boundary of the epoch
StepDue == tlast.idx % k = 0 \/ tlast.idx = tb

(* C2: within an epoch the parameters are unchanged by any batch whose     *)
(* 1-based index is neither a multiple of k nor tb; clipping and the       *)
(* optimizer step happen exactly on the batches whose index is a multiple  *)
(* of k or is tb, and the gradients are zero right after each step.        *)
C2_StepOnlyAtBoundaries ==
    /\ params = clips
    /\ Processed =>
        /\ params = tlast.params_after
        /\ tlast.stepped <=> StepDue
        /\ tlast.clipped <=> StepDue
        /\ StepDue =>
              /\ tlast.params_after = tlast.params_before + 1
              /\ tlast.grads_after = {}
        /\ ~StepDue =>
              /\ tlast.params_after = tlast.params_before
              /\ <<tlast.epoch, tlast.idx>> \in tlast.grads_after

C2_Witness ==
    /\ Processed
    /\ k = 2 /\ tb = 3
    /\ tlast.idx = 3
    /\ tlast.stepped
    /\ params = 2
    /\ grads = {}

ValidationDue == tlast.idx % log_interval = 0 \/ tlast.idx = tb

(* C4: train runs one validation pass after each batch whose 1-based index *)
(* is a multiple of log_interval and after the last batch of the epoch,    *)
(* records its loss and accuracy and resets the running accumulators; no   *)
(* validation runs after any other batch.                                  *)
C4_ValidationAtEveryInterval ==
    Processed =>
        /\ tlast.evals = (IF ValidationDue THEN 1 ELSE 0)
        /\ ValidationDue =>
              /\ tlast.recorded = 1
              /\ tlast.total_loss_after = 0
              /\ tlast.total_accu_after = 0

TrainHasReturned == tpc \in {"script", "exit"} /\ epoch > 0

\* the batches of the last batch's accumulation window: those after the
\* previous multiple of k, up to the batch itself
OwnWindow ==
    {<<tlast.epoch, j>> : j \in (tlast.idx - ((tlast.idx - 1) % k))..tlast.idx}

=============================================================================
